---- MODULE Spec2Model ----
(***************************************************************************)
(* Model of the relay service of src/functions/index.js: the two Express   *)
(* handlers GET /api/createVideo and GET /api/checkStatus, the helpers     *)
(* createVideoGeneration and checkVideoStatus they await, and the two      *)
(* outbound calls (Secret Manager, Replicate) as the environment.          *)
(*                                                                         *)
(* A request runs synchronously up to its first await; every later step    *)
(* is the settling of the awaited promise together with the continuation   *)
(* that runs on it.  Requests interleave at these suspension points.       *)
(***************************************************************************)
EXTENDS Integers, Sequences, FiniteSets, TLC

(* ---------------------------- bounds ----------------------------------- *)
NumRequests == 2

Requests == 1..NumRequests

(* --------------------------- JS values --------------------------------- *)
\* a query parameter that is absent, an object property that was never set
Undefined == "<undefined>"
\* JSON null, as the remote API reports a field that has no value yet
Null == "<null>"

\* !v of a query string value: absent and empty are the falsy ones
Falsy(v) == v \in {Undefined, ""}

\* a default parameter value (resolution = CONFIG.DEFAULT_RESOLUTION)
\* replaces undefined and nothing else
DefaultParam(v, d) == IF v = Undefined THEN d ELSE v

\* res.json(obj): JSON.stringify drops the properties whose value is undefined
JsonBody(obj) ==
    LET kept == {k \in DOMAIN obj : obj[k] # Undefined}
    IN  [k \in kept |-> obj[k]]

(* --------------------------- CONFIG ------------------------------------ *)
DEFAULT_RESOLUTION == "480p"
DEFAULT_MODEL == "bytedance/seedance-1-lite"

(* ------------------- inputs and environment results -------------------- *)
\* resolution is read only once validation passed, so it varies on the
\* queries that pass
CreateQueries ==
    {q \in [prompt : {Undefined, "", "dance"},
            imageUrl : {Undefined, "", "http://img"},
            resolution : {Undefined, "", "720p"}] :
        (Falsy(q.prompt) \/ Falsy(q.imageUrl)) => q.resolution = Undefined}

CheckQueries == [taskId : {Undefined, "", "abc"}]

NoQuery == [none |-> Undefined]

\* what the secret store hands back, or the message of the error it throws
SecretKeys == {"r8_key"}
SecretErrors == {"permission denied"}

\* ids the remote API assigns, and messages of the errors its client throws
RemoteIds == {"p1", "p2"}
RemoteErrors == {"401 unauthorized"}

\* prediction records of the remote API: id, status, model, version and
\* created_at always present; output, error and completed_at optional
\* (completed_at is set once the prediction reached a final status; output
\* and error are left out, null, or set)
Predictions ==
    {p \in [id : RemoteIds,
            status : {"starting", "processing", "succeeded", "failed"},
            created_at : {"t0"},
            started_at : {"t1"},
            completed_at : {Undefined, "t2"},
            model : {DEFAULT_MODEL},
            version : {"hidden"},
            output : {Undefined, Null, "http://out.mp4"},
            error : {Undefined, Null, "boom"}] :
        /\ (p.completed_at = Undefined) <=> (p.status \in {"starting", "processing"})
        /\ <<p.output, p.error>> \in {<<Undefined, Undefined>>, <<Null, Null>>,
                                       <<"http://out.mp4", Null>>, <<Null, "boom">>}}

\* the record predictions.create answers with: a prediction that just started
NewPredictions ==
    {p \in Predictions :
        p.status = "starting" /\ p.output = Undefined /\ p.error = Undefined}

NoOutcome == [kind |-> "none"]
Resolved(v) == [kind |-> "ok", value |-> v]
Rejected(m) == [kind |-> "error", message |-> m]

SecretOutcomes ==
    {Resolved(k) : k \in SecretKeys} \cup {Rejected(m) : m \in SecretErrors}

NoCall == [op |-> "none"]

(* ----------------------------- state ----------------------------------- *)
VARIABLES
    pc,             \* where each request's handler is suspended
    route,          \* the endpoint the request was sent to
    query,          \* req.query
    secretOutcome,  \* how this request's accessSecretVersion call settled
    remoteCall,     \* the call this request made on the Replicate client
    remoteOutcome,  \* how that call settled
    responses,      \* what was written to res, in order
    events          \* the request's outbound calls and response, in order

vars == <<pc, route, query, secretOutcome, remoteCall, remoteOutcome,
          responses, events>>

Init ==
    /\ pc = [r \in Requests |-> "idle"]
    /\ route = [r \in Requests |-> "none"]
    /\ query = [r \in Requests |-> NoQuery]
    /\ secretOutcome = [r \in Requests |-> NoOutcome]
    /\ remoteCall = [r \in Requests |-> NoCall]
    /\ remoteOutcome = [r \in Requests |-> NoOutcome]
    /\ responses = [r \in Requests |-> <<>>]
    /\ events = [r \in Requests |-> <<>>]

(* --------------------------- responses --------------------------------- *)
\* res.status(code).json(obj)
Response(code, obj) == [code |-> code, body |-> JsonBody(obj)]

\* variant: the request is rejected only when both parameters are missing
ValidCreate_BothMissing(q) == ~(Falsy(q.prompt) /\ Falsy(q.imageUrl))

\* the guard of the 400 branch of /api/createVideo, negated
ValidCreate(q) == ~(Falsy(q.prompt) \/ Falsy(q.imageUrl))

\* variant: only an absent taskId is rejected, an empty one passes
ValidCheck_AbsentOnly(q) == q.taskId # Undefined

\* the guard of the 400 branch of /api/checkStatus, negated
ValidCheck(q) == ~Falsy(q.taskId)

CreateMissing ==
    Response(400, [error |-> "Missing required parameters: prompt and imageUrl"])

CheckMissing ==
    Response(400, [error |-> "Missing required parameter: taskId"])

CreateFailed(message) ==
    Response(500, [error |-> "Failed to create video generation task",
                   details |-> message])

\* variant: the 500 body of checkStatus without the details
CheckFailed_NoDetails(message) ==
    Response(500, [error |-> "Failed to check video status"])

CheckFailed(message) ==
    Response(500, [error |-> "Failed to check video status",
                   details |-> message])

CreateStarted(taskId) ==
    Response(200, [taskId |-> taskId,
                   status |-> "started",
                   message |-> "Video generation task created successfully"])

\* variant: the image is taken from the prompt
CreateArgs_ImageFromPrompt(apiKey, prompt, imageUrl, resolution) ==
    [op |-> "create",
     auth |-> apiKey,
     model |-> DEFAULT_MODEL,
     input |-> [prompt |-> prompt,
                image |-> prompt,
                resolution |-> DefaultParam(resolution, DEFAULT_RESOLUTION)]]

\* the argument of replicate.predictions.create
CreateArgs(apiKey, prompt, imageUrl, resolution) ==
    [op |-> "create",
     auth |-> apiKey,
     model |-> DEFAULT_MODEL,
     input |-> [prompt |-> prompt,
                image |-> imageUrl,
                resolution |-> DefaultParam(resolution, DEFAULT_RESOLUTION)]]

\* the argument of replicate.predictions.get
GetArgs(apiKey, taskId) == [op |-> "get", auth |-> apiKey, id |-> taskId]

\* variant: output_url is copied whatever the status is
StatusObject_OutputAlways(prediction) ==
    LET response == [taskId |-> prediction.id,
                     status |-> prediction.status,
                     created_at |-> prediction.created_at,
                     started_at |-> prediction.started_at,
                     completed_at |-> prediction.completed_at,
                     model |-> prediction.model,
                     version |-> prediction.version,
                     output_url |-> prediction.output]
    IN  IF prediction.status = "failed"
        THEN response @@ [error |-> prediction.error]
        ELSE response

\* variant: the whole prediction record is relayed under the mapped fields
StatusObject_WholeRecord(prediction) ==
    LET response == [taskId |-> prediction.id,
                     status |-> prediction.status,
                     created_at |-> prediction.created_at,
                     started_at |-> prediction.started_at,
                     completed_at |-> prediction.completed_at,
                     model |-> prediction.model,
                     version |-> prediction.version]
    IN  IF prediction.status = "succeeded"
        THEN (response @@ [output_url |-> prediction.output]) @@ prediction
        ELSE IF prediction.status = "failed"
             THEN (response @@ [error |-> prediction.error]) @@ prediction
             ELSE response @@ prediction

\* the object checkVideoStatus returns for a prediction record
StatusObject(prediction) ==
    LET response == [taskId |-> prediction.id,
                     status |-> prediction.status,
                     created_at |-> prediction.created_at,
                     started_at |-> prediction.started_at,
                     completed_at |-> prediction.completed_at,
                     model |-> prediction.model,
                     version |-> prediction.version]
    IN  IF prediction.status = "succeeded"
        THEN response @@ [output_url |-> prediction.output]
        ELSE IF prediction.status = "failed"
             THEN response @@ [error |-> prediction.error]
             ELSE response

\* variant: a prediction the remote reports as failed is answered as an
\* upstream failure
CheckOk_FailedAs500(prediction) ==
    IF prediction.status = "failed"
    THEN Response(500, [error |-> "Failed to check video status",
                        details |-> prediction.error])
    ELSE Response(200, StatusObject(prediction))

\* res.status(200).json(status) of /api/checkStatus
CheckOk(prediction) == Response(200, StatusObject(prediction))

(* ---------------------------- actions ---------------------------------- *)
Respond(r, resp) ==
    /\ responses' = [responses EXCEPT ![r] = Append(@, resp)]
    /\ pc' = [pc EXCEPT ![r] = "done"]

Log(r, evs) == events' = [events EXCEPT ![r] = @ \o evs]

\* GET /api/createVideo up to the first await (accessSecretVersion)
CreateVideoRequest(r) ==
    /\ pc[r] = "idle"
    /\ \E q \in CreateQueries :
        /\ route' = [route EXCEPT ![r] = "createVideo"]
        /\ query' = [query EXCEPT ![r] = q]
        /\ IF ~ValidCreate(q)
           THEN /\ Respond(r, CreateMissing)
                /\ Log(r, <<"response">>)
           ELSE /\ pc' = [pc EXCEPT ![r] = "awaitSecret"]
                /\ Log(r, <<"secretFetch">>)
                /\ UNCHANGED responses
    /\ UNCHANGED <<secretOutcome, remoteCall, remoteOutcome>>

\* variant: a failed secret fetch is swallowed and the remote call is made
\* without a key
CreateVideoSecretSettled_IgnoreFailure(r) ==
    /\ pc[r] = "awaitSecret"
    /\ route[r] = "createVideo"
    /\ \E o \in SecretOutcomes :
        /\ secretOutcome' = [secretOutcome EXCEPT ![r] = o]
        /\ remoteCall' = [remoteCall EXCEPT ![r] =
               CreateArgs(IF o.kind = "ok" THEN o.value ELSE Undefined,
                          query[r].prompt, query[r].imageUrl,
                          query[r].resolution)]
        /\ pc' = [pc EXCEPT ![r] = "awaitRemote"]
        /\ Log(r, <<(IF o.kind = "ok" THEN "secretOk" ELSE "secretFail"),
                    "remoteCall">>)
        /\ UNCHANGED responses
    /\ UNCHANGED <<route, query, remoteOutcome>>

\* createVideoGeneration resumes after getReplicateApiKey settled
CreateVideoSecretSettled(r) ==
    /\ pc[r] = "awaitSecret"
    /\ route[r] = "createVideo"
    /\ \E o \in SecretOutcomes :
        /\ secretOutcome' = [secretOutcome EXCEPT ![r] = o]
        /\ IF o.kind = "ok"
           THEN /\ remoteCall' = [remoteCall EXCEPT ![r] =
                       CreateArgs(o.value, query[r].prompt, query[r].imageUrl,
                                  query[r].resolution)]
                /\ pc' = [pc EXCEPT ![r] = "awaitRemote"]
                /\ Log(r, <<"secretOk", "remoteCall">>)
                /\ UNCHANGED responses
           ELSE /\ Respond(r, CreateFailed(o.message))
                /\ Log(r, <<"secretFail", "response">>)
                /\ UNCHANGED remoteCall
    /\ UNCHANGED <<route, query, remoteOutcome>>

\* variant: the created prediction is kept in a variable of the module, so
\* the response carries the id of whichever request wrote it last
CreateVideoRemoteSettled_SharedResult(r) ==
    /\ pc[r] = "awaitRemote"
    /\ route[r] = "createVideo"
    /\ \E o \in {Resolved(p) : p \in NewPredictions}
                \cup {Rejected(m) : m \in RemoteErrors} :
        /\ remoteOutcome' = [remoteOutcome EXCEPT ![r] = o]
        /\ IF o.kind = "ok"
           THEN /\ \E s \in Requests :
                    /\ route[s] = "createVideo"
                    /\ remoteOutcome'[s].kind = "ok"
                    /\ Respond(r, CreateStarted(remoteOutcome'[s].value.id))
                /\ Log(r, <<"remoteOk", "response">>)
           ELSE /\ Respond(r, CreateFailed(o.message))
                /\ Log(r, <<"remoteFail", "response">>)
    /\ UNCHANGED <<route, query, secretOutcome, remoteCall>>

\* createVideoGeneration resumes after predictions.create settled
CreateVideoRemoteSettled(r) ==
    /\ pc[r] = "awaitRemote"
    /\ route[r] = "createVideo"
    /\ \E o \in {Resolved(p) : p \in NewPredictions}
                \cup {Rejected(m) : m \in RemoteErrors} :
        /\ remoteOutcome' = [remoteOutcome EXCEPT ![r] = o]
        /\ IF o.kind = "ok"
           THEN /\ Respond(r, CreateStarted(o.value.id))
                /\ Log(r, <<"remoteOk", "response">>)
           ELSE /\ Respond(r, CreateFailed(o.message))
                /\ Log(r, <<"remoteFail", "response">>)
    /\ UNCHANGED <<route, query, secretOutcome, remoteCall>>

\* GET /api/checkStatus up to the first await (accessSecretVersion)
CheckStatusRequest(r) ==
    /\ pc[r] = "idle"
    /\ \E q \in CheckQueries :
        /\ route' = [route EXCEPT ![r] = "checkStatus"]
        /\ query' = [query EXCEPT ![r] = q]
        /\ IF ~ValidCheck(q)
           THEN /\ Respond(r, CheckMissing)
                /\ Log(r, <<"response">>)
           ELSE /\ pc' = [pc EXCEPT ![r] = "awaitSecret"]
                /\ Log(r, <<"secretFetch">>)
                /\ UNCHANGED responses
    /\ UNCHANGED <<secretOutcome, remoteCall, remoteOutcome>>

\* checkVideoStatus resumes after getReplicateApiKey settled
CheckStatusSecretSettled(r) ==
    /\ pc[r] = "awaitSecret"
    /\ route[r] = "checkStatus"
    /\ \E o \in SecretOutcomes :
        /\ secretOutcome' = [secretOutcome EXCEPT ![r] = o]
        /\ IF o.kind = "ok"
           THEN /\ remoteCall' = [remoteCall EXCEPT ![r] =
                       GetArgs(o.value, query[r].taskId)]
                /\ pc' = [pc EXCEPT ![r] = "awaitRemote"]
                /\ Log(r, <<"secretOk", "remoteCall">>)
                /\ UNCHANGED responses
           ELSE /\ Respond(r, CheckFailed(o.message))
                /\ Log(r, <<"secretFail", "response">>)
                /\ UNCHANGED remoteCall
    /\ UNCHANGED <<route, query, remoteOutcome>>

\* checkVideoStatus resumes after predictions.get settled
CheckStatusRemoteSettled(r) ==
    /\ pc[r] = "awaitRemote"
    /\ route[r] = "checkStatus"
    /\ \E o \in {Resolved(p) : p \in Predictions}
                \cup {Rejected(m) : m \in RemoteErrors} :
        /\ remoteOutcome' = [remoteOutcome EXCEPT ![r] = o]
        /\ IF o.kind = "ok"
           THEN /\ Respond(r, CheckOk(o.value))
                /\ Log(r, <<"remoteOk", "response">>)
           ELSE /\ Respond(r, CheckFailed(o.message))
                /\ Log(r, <<"remoteFail", "response">>)
    /\ UNCHANGED <<route, query, secretOutcome, remoteCall>>

Next ==
    \E r \in Requests :
        \/ CreateVideoRequest(r)
        \/ CreateVideoSecretSettled(r)
        \/ CreateVideoRemoteSettled(r)
        \/ CheckStatusRequest(r)
        \/ CheckStatusSecretSettled(r)
        \/ CheckStatusRemoteSettled(r)

Spec == Init /\ [][Next]_vars

(* ----------------------- vocabulary of the claims ----------------------- *)
Has(body, k) == k \in DOMAIN body

Responded(r) == Len(responses[r]) > 0

Resp(r) == responses[r][1]

Positions(r, names) == {i \in 1..Len(events[r]) : events[r][i] \in names}

Occurs(r, name) == Positions(r, {name}) # {}

Before(r, earlier, later) ==
    \A j \in Positions(r, later) : \E i \in Positions(r, earlier) : i < j

SecretFailed(r) == secretOutcome[r].kind = "error"
RemoteFailed(r) == remoteOutcome[r].kind = "error"
RemoteReturned(r) == remoteOutcome[r].kind = "ok"

NoOutboundCall(r) ==
    /\ ~Occurs(r, "secretFetch")
    /\ ~Occurs(r, "remoteCall")
    /\ secretOutcome[r] = NoOutcome
    /\ remoteCall[r] = NoCall
    /\ remoteOutcome[r] = NoOutcome

OneResponse(r, code) ==
    /\ pc[r] = "done"
    /\ Len(responses[r]) = 1
    /\ Resp(r).code = code

TaskStatusFields ==
    {"taskId", "status", "created_at", "started_at", "completed_at", "model",
     "output_url", "error"}

PassedValidation(r) ==
    \/ route[r] = "createVideo" /\ ValidCreate(query[r])
    \/ route[r] = "checkStatus" /\ ValidCheck(query[r])

(* ------------------------------- C1 ------------------------------------ *)
\* C1: a createVideo request whose prompt or imageUrl (or both) is absent or
\* empty is answered with HTTP 400 and an error field, and neither the secret
\* fetch nor the remote create call is ever started for it.
C1_CreateMissingParams ==
    \A r \in Requests :
        (route[r] = "createVideo"
            /\ (Falsy(query[r].prompt) \/ Falsy(query[r].imageUrl)))
        => /\ OneResponse(r, 400)
           /\ Has(Resp(r).body, "error")
           /\ NoOutboundCall(r)

C1_Witness ==
    \E r \in Requests :
        /\ route[r] = "createVideo"
        /\ query[r].prompt = "dance"
        /\ query[r].imageUrl = ""
        /\ Responded(r)
        /\ Resp(r).code = 400

(* ------------------------------- C2 ------------------------------------ *)
\* C2: a checkStatus request whose taskId is absent or empty is answered with
\* HTTP 400 and an error field, and makes no secret fetch and no remote get
\* call.
C2_CheckMissingTaskId ==
    \A r \in Requests :
        (route[r] = "checkStatus" /\ Falsy(query[r].taskId))
        => /\ OneResponse(r, 400)
           /\ Has(Resp(r).body, "error")
           /\ NoOutboundCall(r)

C2_Witness ==
    \E r \in Requests :
        /\ route[r] = "checkStatus"
        /\ query[r].taskId = ""
        /\ Responded(r)
        /\ Resp(r).code = 400

(* ------------------------------- C3 ------------------------------------ *)
\* C3 as stated: when predictions.get returned a record, the body contains
\* output_url if and only if the remote status is succeeded; when present it
\* equals the record's output and the body has no error field; for
\* processing and starting the body has neither.
C3_OutputUrlIffSucceeded ==
    \A r \in Requests :
        (route[r] = "checkStatus" /\ RemoteReturned(r))
        => LET rec == remoteOutcome[r].value
               body == Resp(r).body
           IN  /\ Has(body, "output_url") <=> (rec.status = "succeeded")
               /\ Has(body, "output_url")
                    => (body.output_url = rec.output /\ ~Has(body, "error"))
               /\ rec.status \in {"processing", "starting"}
                    => (~Has(body, "output_url") /\ ~Has(body, "error"))

\* C3 amended: the body contains output_url if and only if the remote status
\* is succeeded and the record carries an output (null included); when
\* present it equals the record's output and the body has no error field;
\* for processing and starting the body has neither.
C3_OutputUrlIffSucceededWithOutput ==
    \A r \in Requests :
        (route[r] = "checkStatus" /\ RemoteReturned(r))
        => LET rec == remoteOutcome[r].value
               body == Resp(r).body
           IN  /\ Has(body, "output_url")
                    <=> (rec.status = "succeeded" /\ rec.output # Undefined)
               /\ Has(body, "output_url")
                    => (body.output_url = rec.output /\ ~Has(body, "error"))
               /\ rec.status \in {"processing", "starting"}
                    => (~Has(body, "output_url") /\ ~Has(body, "error"))

C3_Witness ==
    \E r \in Requests :
        /\ route[r] = "checkStatus"
        /\ RemoteReturned(r)
        /\ remoteOutcome[r].value.status = "succeeded"
        /\ Responded(r)
        /\ Has(Resp(r).body, "output_url")
        /\ Resp(r).body.output_url = "http://out.mp4"

(* ------------------------------- C4 ------------------------------------ *)
\* C4 as stated: when predictions.get returned a record with status failed,
\* the response is HTTP 200, its body has an error field equal to the
\* record's error and no output_url; an error field is in a 200 body only
\* when the remote status is failed.
C4_FailedIs200WithError ==
    \A r \in Requests :
        /\ (route[r] = "checkStatus" /\ RemoteReturned(r)
                /\ remoteOutcome[r].value.status = "failed")
            => /\ OneResponse(r, 200)
               /\ Has(Resp(r).body, "error")
               /\ Resp(r).body.error = remoteOutcome[r].value.error
               /\ ~Has(Resp(r).body, "output_url")
        /\ (Responded(r) /\ Resp(r).code = 200 /\ Has(Resp(r).body, "error"))
            => /\ route[r] = "checkStatus"
               /\ RemoteReturned(r)
               /\ remoteOutcome[r].value.status = "failed"

\* C4 amended: when predictions.get returned a record with status failed,
\* the response is HTTP 200 without output_url, and its body has an error
\* field, equal to the record's error, exactly when the record carries an
\* error (null included); an error field is in a 200 body only when the
\* remote status is failed.
C4_FailedIs200WithRecordedError ==
    \A r \in Requests :
        /\ (route[r] = "checkStatus" /\ RemoteReturned(r)
                /\ remoteOutcome[r].value.status = "failed")
            => /\ OneResponse(r, 200)
               /\ Has(Resp(r).body, "error")
                    <=> (remoteOutcome[r].value.error # Undefined)
               /\ Has(Resp(r).body, "error")
                    => Resp(r).body.error = remoteOutcome[r].value.error
               /\ ~Has(Resp(r).body, "output_url")
        /\ (Responded(r) /\ Resp(r).code = 200 /\ Has(Resp(r).body, "error"))
            => /\ route[r] = "checkStatus"
               /\ RemoteReturned(r)
               /\ remoteOutcome[r].value.status = "failed"

C4_Witness ==
    \E r \in Requests :
        /\ route[r] = "checkStatus"
        /\ RemoteReturned(r)
        /\ remoteOutcome[r].value.status = "failed"
        /\ Responded(r)
        /\ Resp(r).code = 200
        /\ Has(Resp(r).body, "error")
        /\ Resp(r).body.error = "boom"

(* ------------------------------- C5 ------------------------------------ *)
\* C5: when the secret fetch or the remote call of a validated request
\* throws, the request ends with exactly one response, HTTP 500, whose body
\* has an error field and a details field carrying the thrown error's
\* message.
C5_UpstreamFailureIs500 ==
    \A r \in Requests :
        (SecretFailed(r) \/ RemoteFailed(r))
        => /\ PassedValidation(r)
           /\ OneResponse(r, 500)
           /\ DOMAIN Resp(r).body = {"error", "details"}
           /\ Resp(r).body.details =
                 (IF SecretFailed(r) THEN secretOutcome[r].message
                                     ELSE remoteOutcome[r].message)

C5_Witness ==
    \E r, s \in Requests :
        /\ route[r] = "createVideo" /\ SecretFailed(r)
        /\ Resp(r).body.details = "permission denied"
        /\ route[s] = "checkStatus" /\ RemoteFailed(s)
        /\ Resp(s).body.details = "401 unauthorized"

(* ------------------------------- C6 ------------------------------------ *)
\* C6: a createVideo request with non-empty prompt and imageUrl whose secret
\* fetch and remote create call both succeed is answered with HTTP 200 and
\* the body {taskId, status: "started", message}, taskId being the id the
\* remote API gave the prediction created for this request's prompt and
\* imageUrl.
C6_CreateReturnsRemoteId ==
    \A r \in Requests :
        (route[r] = "createVideo" /\ ValidCreate(query[r])
            /\ secretOutcome[r].kind = "ok" /\ RemoteReturned(r))
        => /\ OneResponse(r, 200)
           /\ DOMAIN Resp(r).body = {"taskId", "status", "message"}
           /\ Resp(r).body.status = "started"
           /\ Resp(r).body.taskId = remoteOutcome[r].value.id
           /\ remoteCall[r].op = "create"
           /\ remoteCall[r].model = DEFAULT_MODEL
           /\ remoteCall[r].input.prompt = query[r].prompt
           /\ remoteCall[r].input.image = query[r].imageUrl

C6_Witness ==
    \E r \in Requests :
        /\ route[r] = "createVideo"
        /\ RemoteReturned(r)
        /\ Responded(r)
        /\ Resp(r).code = 200
        /\ Resp(r).body.taskId = "p2"

(* ------------------------------- C7 ------------------------------------ *)
\* C7: a valid createVideo request without a resolution value (parameter
\* absent, or present but empty) makes the remote create call with
\* resolution "480p"; a non-empty resolution is forwarded unchanged.
C7_ResolutionDefault ==
    \A r \in Requests :
        (route[r] = "createVideo" /\ remoteCall[r].op = "create")
        => remoteCall[r].input.resolution =
             (IF query[r].resolution \in {Undefined, ""}
              THEN "480p" ELSE query[r].resolution)

EventOrder(r) ==
    /\ Cardinality(Positions(r, {"secretFetch"})) <= 1
    /\ Cardinality(Positions(r, {"remoteCall"})) <= 1
    /\ Cardinality(Positions(r, {"response"})) <= 1
    /\ Before(r, {"secretFetch"}, {"secretOk", "secretFail"})
    /\ Before(r, {"secretOk"}, {"remoteCall"})
    /\ Occurs(r, "secretFail") => ~Occurs(r, "remoteCall")
    /\ Before(r, {"remoteCall"}, {"remoteOk", "remoteFail"})
    /\ \A i \in Positions(r, {"response"}) : i = Len(events[r])

ResponseAfterOutcome(r) ==
    Before(r, {"remoteOk", "remoteFail", "secretFail"}, {"response"})

\* C9 as stated: within one createVideo or checkStatus request the events
\* are secret fetch, then remote call, then response; at most one secret
\* fetch and one remote call; the remote call starts only after the secret
\* fetch succeeded; the response is sent only after the remote call
\* completed or an outbound call failed.
C9_SequentialCalls ==
    \A r \in Requests : EventOrder(r) /\ ResponseAfterOutcome(r)

\* C9 amended: the same, the last part for the requests that pass
\* validation: their response is sent only after the remote call completed
\* or an outbound call failed, while a request that fails validation gets
\* its response without any outbound call.
C9_SequentialCallsWhenValid ==
    \A r \in Requests :
        /\ EventOrder(r)
        /\ route[r] # "none"
            => IF PassedValidation(r)
               THEN ResponseAfterOutcome(r)
               ELSE events[r] = <<"response">>

C9_Witness ==
    \E r, s \in Requests :
        /\ events[r] =
              <<"secretFetch", "secretOk", "remoteCall", "remoteOk", "response">>
        /\ events[s] = <<"secretFetch", "secretFail", "response">>

(* ------------------------------- C10 ----------------------------------- *)
\* what a response may carry, given the request's own query and the results
\* of its own outbound calls
OwnResponse(r) ==
    LET body == Resp(r).body
    IN  /\ Resp(r).code = 400 => ~PassedValidation(r)
        /\ Resp(r).code = 500
            => \/ SecretFailed(r) /\ body.details = secretOutcome[r].message
               \/ RemoteFailed(r) /\ body.details = remoteOutcome[r].message
        /\ Resp(r).code = 200
            => /\ RemoteReturned(r)
               /\ body.taskId = remoteOutcome[r].value.id
               /\ Has(body, "output_url")
                    => body.output_url = remoteOutcome[r].value.output
               /\ Has(body, "error")
                    => body.error = remoteOutcome[r].value.error
               /\ route[r] = "checkStatus"
                    => body.status = remoteOutcome[r].value.status

StateOf(r) ==
    <<pc[r], route[r], query[r], secretOutcome[r], remoteCall[r],
      remoteOutcome[r], responses[r], events[r]>>

StateOfNext(r) ==
    <<pc'[r], route'[r], query'[r], secretOutcome'[r], remoteCall'[r],
      remoteOutcome'[r], responses'[r], events'[r]>>

\* C10: under every interleaving of the requests at their suspension points,
\* a step of one request leaves the state of every other request alone, a
\* remote call carries the request's own parameters, and a response carries
\* the taskId, status, output and error of the request's own outbound calls.
C10_NoCrossRequestState ==
    /\ [](\A r \in Requests :
            /\ Responded(r) => OwnResponse(r)
            /\ remoteCall[r].op = "get" => remoteCall[r].id = query[r].taskId
            /\ remoteCall[r].op = "create"
                 => /\ remoteCall[r].input.prompt = query[r].prompt
                    /\ remoteCall[r].input.image = query[r].imageUrl)
    /\ [][\A r, s \in Requests :
            (r # s /\ StateOfNext(r) # StateOf(r)) => StateOfNext(s) = StateOf(s)]_vars

C10_Witness ==
    \E r, s \in Requests :
        /\ r # s
        /\ route[r] = "createVideo" /\ route[s] = "createVideo"
        /\ query[r] # query[s]
        /\ pc[s] = "awaitRemote"
        /\ Responded(r)
        /\ Resp(r).code = 200
        /\ Resp(r).body.taskId = "p1"
====
